---- MODULE Spec2Model ----
(***************************************************************************)
(* Model of src/budget_invest_app.py, a Streamlit script.  Every user      *)
(* interaction reruns the whole script top to bottom; only                 *)
(* st.session_state survives from one run to the next.  One action models  *)
(* one step of a script run, in source order.                              *)
(*                                                                         *)
(* Numbers.  Python floats are modelled as exact rationals <<n, d>> in     *)
(* lowest terms with d > 0; IEEE-754 rounding and overflow are not         *)
(* modelled.                                                               *)
(*                                                                         *)
(* Spec is the script.  SpecHelper runs get_alpha_vantage_monthly_return   *)
(* alone on every response the model knows; in Spec the two calls of the   *)
(* helper draw their result from the set of values it returns on those     *)
(* responses.                                                              *)
(***************************************************************************)
EXTENDS Integers, Sequences, FiniteSets

\* ------------------------------------------------------------------------
\* Bounds of the model
\* ------------------------------------------------------------------------
\* largest horizon the months slider offers in the model (60 in the source)
MaxMonths == 2
\* largest amount typed into an expense or investment input
MaxAmt == 1
\* largest gross income typed into the income input
MaxIncome == 10
\* number of dates the market-data time series may hold
MaxDates == 3
\* largest adjusted close the market-data provider reports
MaxClose == 2

\* ------------------------------------------------------------------------
\* Exact rational arithmetic (Python float operators + - * / **)
\* ------------------------------------------------------------------------
Abs(x) == IF x < 0 THEN -x ELSE x

RECURSIVE Gcd(_, _)
Gcd(a, b) == IF b = 0 THEN a ELSE Gcd(b, a % b)

Norm(n, d) ==
    LET g == Gcd(Abs(n), Abs(d))
        s == IF d < 0 THEN -1 ELSE 1
    IN  <<s * (n \div g), s * (d \div g)>>

R(n) == <<n, 1>>

Lcm(a, b) == (a \div Gcd(a, b)) * b

RAdd(a, b) ==
    LET l == Lcm(a[2], b[2])
    IN  Norm(a[1] * (l \div a[2]) + b[1] * (l \div b[2]), l)

RNeg(a) == <<-a[1], a[2]>>

RSub(a, b) == RAdd(a, RNeg(b))

\* cross-cancel before multiplying so that no intermediate product grows
RMul(a, b) ==
    LET g1 == Gcd(Abs(a[1]), b[2])
        g2 == Gcd(Abs(b[1]), a[2])
    IN  Norm((a[1] \div g1) * (b[1] \div g2), (a[2] \div g2) * (b[2] \div g1))

\* b # 0
RDiv(a, b) == RMul(a, Norm(b[2], b[1]))

RECURSIVE RPow(_, _)
RPow(a, k) == IF k = 0 THEN R(1) ELSE RMul(a, RPow(a, k - 1))

RLeq(a, b) ==
    LET l == Lcm(a[2], b[2])
    IN  a[1] * (l \div a[2]) <= b[1] * (l \div b[2])

\* Python truthiness of a float: every value but 0.0
Truthy(a) == a[1] # 0

\* ------------------------------------------------------------------------
\* Exceptions and optional values
\* ------------------------------------------------------------------------
ExceptionKinds ==
    {"Timeout", "ConnectionError", "HTTPError", "JSONDecodeError",
     "AttributeError", "KeyError", "ValueError", "IndexError", "APIError"}

\* a narrower clause, `except requests.RequestException`
ExceptRequestException(e) == e \in {"Timeout", "ConnectionError", "HTTPError"}

\* `except Exception` catches every exception a call in the try block raises
ExceptException(e) == e \in ExceptionKinds

\* result of running a block: a returned optional float, or a raised exception
None == [exc |-> "none", some |-> FALSE, val |-> R(0)]
Some(v) == [exc |-> "none", some |-> TRUE, val |-> v]
Raise(e) == [exc |-> e, some |-> FALSE, val |-> R(0)]

\* ------------------------------------------------------------------------
\* Alpha Vantage helper
\* ------------------------------------------------------------------------
\* Dates stand for the ISO date strings that key the time series; their order
\* is the lexicographic order of those strings.
Dates == 1 .. MaxDates
Closes == 0 .. MaxClose

\* one entry of the time series: absent, present without a usable
\* "5. adjusted close" field, or present with a close that float() parses
Entries ==
    {[st |-> "absent", close |-> 0], [st |-> "bad", close |-> 0]}
        \cup {[st |-> "ok", close |-> c] : c \in Closes}

NoSeries == [d \in Dates |-> [st |-> "absent", close |-> 0]]

\* what requests.get can come back with:
\*   timeout   - requests.get raises
\*   status    - a status code other than 200
\*   badjson   - 200, body is not JSON
\*   notdict   - 200, JSON body is not an object
\*   tsnotdict - 200, "Monthly Adjusted Time Series" is a non-empty non-object
\*   ok        - 200, the series is ts (all absent: key missing, null or {})
Responses ==
    {[kind |-> k, ts |-> NoSeries] :
        k \in {"timeout", "status", "badjson", "notdict", "tsnotdict"}}
        \cup {[kind |-> "ok", ts |-> t] : t \in [Dates -> Entries]}

Keys(ts) == {d \in Dates : ts[d].st # "absent"}

SetMax(S) == CHOOSE x \in S : \A y \in S : y <= x
SetMin(S) == CHOOSE x \in S : \A y \in S : x <= y

RECURSIVE SortedAsc(_)
SortedAsc(S) ==
    IF S = {} THEN <<>> ELSE <<SetMin(S)>> \o SortedAsc(S \ {SetMin(S)})

\* sorted(ts.keys(), reverse=True)
RECURSIVE SortedDesc(_)
SortedDesc(S) ==
    IF S = {} THEN <<>> ELSE <<SetMax(S)>> \o SortedDesc(S \ {SetMax(S)})

\* lines 34-46, the body of the try block
TryMonthlyReturn(resp) ==
    IF resp.kind = "timeout" THEN Raise("Timeout")
    ELSE IF resp.kind = "status" THEN None
    ELSE IF resp.kind = "badjson" THEN Raise("JSONDecodeError")
    ELSE IF resp.kind = "notdict" THEN Raise("AttributeError")
    ELSE IF resp.kind = "tsnotdict" \/ Cardinality(Keys(resp.ts)) < 2 THEN None
    ELSE LET dates == SortedDesc(Keys(resp.ts))
             e0 == resp.ts[dates[1]]
             e1 == resp.ts[dates[2]]
         IN  IF e0.st = "bad" \/ e1.st = "bad" THEN Raise("KeyError")
             ELSE IF e1.close = 0 THEN None
             ELSE Some(RDiv(RSub(R(e0.close), R(e1.close)), R(e1.close)))

get_alpha_vantage_monthly_return(resp) ==
    LET o == TryMonthlyReturn(resp)
    IN  IF o.exc # "none" /\ ExceptException(o.exc) THEN None ELSE o

\* every value the helper can hand back to the script
ProviderReturns == {get_alpha_vantage_monthly_return(r) : r \in Responses}

\* ------------------------------------------------------------------------
\* Widgets (lines 54-73) and the values the model lets the user enter
\* ------------------------------------------------------------------------
TaxMin == 0
TaxMax == 50
MinMonths == 1

Incomes == {MaxIncome}
TaxRates == {TaxMin, TaxMax}
Amounts == {0, MaxAmt}
Horizons == MinMonths .. MaxMonths

\* ------------------------------------------------------------------------
\* Returns (lines 78-82)
\* ------------------------------------------------------------------------
DefaultStockR == Norm(1, 100)
DefaultBondR == Norm(3, 1000)
real_r == Norm(4, 1000)
crypto_r == Norm(2, 100)
fd_r == Norm(3, 1000)

\* Python `x or default` on the helper's result: None and 0.0 are both falsy
OrDefault(x, default) == IF x.some /\ Truthy(x.val) THEN x.val ELSE default

\* ------------------------------------------------------------------------
\* Projection (lines 96-102)
\* ------------------------------------------------------------------------
\* a sign slip in the compounding base: (1 - r) ** mm
AssetValueDecay(c, r, mm) ==
    IF Truthy(r)
    THEN RDiv(RMul(R(c), RSub(RPow(RSub(R(1), r), mm), R(1))), r)
    ELSE RMul(R(c), R(mm))

\* c * ((1 + r) ** mm - 1) / r if r else c * mm
AssetValue(c, r, mm) ==
    IF Truthy(r)
    THEN RDiv(RMul(R(c), RSub(RPow(RAdd(R(1), r), mm), R(1))), r)
    ELSE RMul(R(c), R(mm))

\* `bal = net_flow` where the source has `bal += net_flow`
AccumulateAssign(b, nf) == nf

\* bal += net_flow (line 95)
Accumulate(b, nf) == RAdd(b, nf)

\* bal + stock_val + bond_val + real_val + crypto_val + fd_val (line 102)
NetWorthOf(b, sv, bv, rv, cv, fv) ==
    RAdd(RAdd(RAdd(RAdd(RAdd(b, sv), bv), rv), cv), fv)

\* ------------------------------------------------------------------------
\* Conversation service
\* ------------------------------------------------------------------------
ConvIds == {"c1", "c2"}
\* the key is not in st.session_state / the key holds Python None
Absent == "ABSENT"
NoneId == "NONE"

\* what the text box can hold
Messages == {"", " ", "hi"}
\* user_message.strip()
Strip(t) == IF t = " " THEN "" ELSE t

\* How a call to a collaborator can end:
\*   ok      - a 2xx response with the body the script expects
\*   timeout - the transport raises
\*   http    - an error status
\*   badjson - a 2xx response whose body is not JSON
\*   shape   - a 2xx JSON body without the structure the script indexes
\*   noid    - (create only) a 2xx JSON object without an "id"
NetOutcomes == {"ok", "timeout", "http", "badjson", "shape"}
CreateOutcomes == NetOutcomes \cup {"noid"}
\* the assistant text replies found in the listed messages: none at all, the
\* last one empty, the last one a text
Replies == {"none", "empty", "text"}

\* the exception the try block of a call raises on an outcome, or "none"
Raises(call, o) ==
    CASE o \in {"ok", "noid"} -> "none"
      [] o = "timeout" -> "Timeout"
      [] o = "http" -> IF call = "openai" THEN "APIError" ELSE "HTTPError"
      [] o = "badjson" ->
            IF call = "openai" THEN "APIError"
            ELSE IF call = "send" THEN "none"
            ELSE "JSONDecodeError"
      [] o = "shape" ->
            IF call = "openai" THEN "IndexError"
            ELSE IF call = "deepseek" THEN "KeyError"
            ELSE IF call = "send" THEN "none"
            ELSE "AttributeError"

\* init.json().get("id") (line 230)
JsonGetId(o, id) == IF o = "noid" THEN NoneId ELSE id

\* ------------------------------------------------------------------------
\* State
\* ------------------------------------------------------------------------
VARIABLES
    pc,                 \* position of the script run
    income, tax_rate,
    housing, food, transport, utilities, entertainment, others,
    stocks, bonds, real_estate, crypto, fixed_deposit,
    months,
    lookup,             \* what the helper returned for SPY and AGG in this run
    stock_r, bond_r,
    after_tax_income, total_exp, total_inv, net_flow,
    bal, rows, m,
    session_state,      \* st.session_state, survives reruns
    pressed,            \* the button that returned True in this run
    requests,           \* conversation-service requests made in this run
    failed,             \* collaborator calls that failed in this run
    notices,            \* st.error / st.warning / st.info / st.success shown
    resp, ret           \* response met and value returned by the helper
                        \* when it runs alone (SpecHelper)

widgets ==
    <<income, tax_rate, housing, food, transport, utilities, entertainment,
      others, stocks, bonds, real_estate, crypto, fixed_deposit, months>>
returns == <<lookup, stock_r, bond_r>>
calc == <<after_tax_income, total_exp, total_inv, net_flow>>
loop == <<bal, rows, m>>
ui == <<pressed, requests, failed, notices>>
helper == <<resp, ret>>
vars == <<pc, widgets, returns, calc, loop, session_state, ui, helper>>

Zero == R(0)

\* before the first run: no local of the script exists, the session is new
Fresh ==
    /\ income = 0 /\ tax_rate = TaxMin
    /\ housing = 0 /\ food = 0 /\ transport = 0 /\ utilities = 0
    /\ entertainment = 0 /\ others = 0
    /\ stocks = 0 /\ bonds = 0 /\ real_estate = 0 /\ crypto = 0
    /\ fixed_deposit = 0
    /\ months = MinMonths
    /\ lookup = [SPY |-> None, AGG |-> None]
    /\ stock_r = Zero /\ bond_r = Zero
    /\ after_tax_income = Zero /\ total_exp = Zero /\ total_inv = Zero
    /\ net_flow = Zero
    /\ bal = Zero /\ rows = <<>> /\ m = 0
    /\ session_state = [conversation_id |-> Absent]
    /\ pressed = "none"
    /\ requests = {}
    /\ failed = {}
    /\ notices = {}

Init ==
    /\ pc = "idle"
    /\ Fresh
    /\ resp = [kind |-> "timeout", ts |-> NoSeries]
    /\ ret = None

\* the membership test done on a key that is always there
HasConversationAlways(ss) == TRUE

\* the membership test done on a key that is never there
HasConversationNever(ss) == FALSE

\* "conversation_id" in st.session_state (lines 219 and 241)
HasConversation(ss) == ss.conversation_id # Absent

\* A user interaction starts a script run: the widgets are read (lines 54-73).
\* The tax rate, housing, stocks and the horizon vary; the other inputs hold
\* one value each.
Rerun ==
    /\ pc = "idle"
    /\ income' \in Incomes
    /\ tax_rate' \in TaxRates
    /\ housing' \in Amounts
    /\ food' = MaxAmt
    /\ transport' = 0 /\ utilities' = 0 /\ entertainment' = 0 /\ others' = 0
    /\ stocks' \in Amounts
    /\ bonds' = MaxAmt
    /\ real_estate' = MaxAmt /\ crypto' = MaxAmt /\ fixed_deposit' = MaxAmt
    /\ months' \in Horizons
    /\ pc' = "rate_spy"
    /\ UNCHANGED <<returns, calc, loop, session_state, ui, helper>>

\* The run is over (end of script, st.stop() or an uncaught exception): its
\* locals are gone, st.session_state stays, the app waits for the user.
EndRun ==
    /\ pc \in {"done", "stopped", "crashed"}
    /\ income' = 0 /\ tax_rate' = TaxMin
    /\ housing' = 0 /\ food' = 0 /\ transport' = 0 /\ utilities' = 0
    /\ entertainment' = 0 /\ others' = 0
    /\ stocks' = 0 /\ bonds' = 0 /\ real_estate' = 0 /\ crypto' = 0
    /\ fixed_deposit' = 0
    /\ months' = MinMonths
    /\ lookup' = [SPY |-> None, AGG |-> None]
    /\ stock_r' = Zero /\ bond_r' = Zero
    /\ after_tax_income' = Zero /\ total_exp' = Zero /\ total_inv' = Zero
    /\ net_flow' = Zero
    /\ bal' = Zero /\ rows' = <<>> /\ m' = 0
    /\ pressed' = "none"
    /\ requests' = {}
    /\ failed' = {}
    /\ notices' = {}
    /\ pc' = "idle"
    /\ UNCHANGED <<session_state, helper>>

\* line 78
RateSPY ==
    /\ pc = "rate_spy"
    /\ \E r \in ProviderReturns :
        /\ lookup' = [lookup EXCEPT !.SPY = r]
        /\ IF r.exc # "none"
           THEN pc' = "crashed" /\ UNCHANGED <<stock_r, failed>>
           ELSE /\ stock_r' = OrDefault(r, DefaultStockR)
                /\ failed' = IF r.some THEN failed ELSE failed \cup {"rate_SPY"}
                /\ pc' = "rate_agg"
    /\ UNCHANGED <<widgets, bond_r, calc, loop, session_state, pressed,
                   requests, notices, helper>>

\* line 79
RateAGG ==
    /\ pc = "rate_agg"
    /\ \E r \in ProviderReturns :
        /\ lookup' = [lookup EXCEPT !.AGG = r]
        /\ IF r.exc # "none"
           THEN pc' = "crashed" /\ UNCHANGED <<bond_r, failed>>
           ELSE /\ bond_r' = OrDefault(r, DefaultBondR)
                /\ failed' = IF r.some THEN failed ELSE failed \cup {"rate_AGG"}
                /\ pc' = "calc"
    /\ UNCHANGED <<widgets, stock_r, calc, loop, session_state, pressed,
                   requests, notices, helper>>

\* lines 87-93
Calculations ==
    /\ pc = "calc"
    /\ after_tax_income' =
           RMul(R(income), RSub(R(1), RDiv(R(tax_rate), R(100))))
    /\ total_exp' =
           R(housing + food + transport + utilities + entertainment + others)
    /\ total_inv' = R(stocks + bonds + real_estate + crypto + fixed_deposit)
    /\ net_flow' = RSub(RSub(after_tax_income', total_exp'), total_inv')
    /\ bal' = Zero
    /\ rows' = <<>>
    /\ m' = 1
    /\ pc' = "loop"
    /\ UNCHANGED <<widgets, returns, session_state, ui, helper>>

\* an off-by-one in the range: range(1, months)
InRangeShort(mm) == mm < months

\* range(1, months + 1) still has the value mm to hand out
InRange(mm) == mm < months + 1

\* lines 94-112, one iteration
LoopIter ==
    /\ pc = "loop"
    /\ InRange(m)
    /\ LET b == Accumulate(bal, net_flow)
           stock_val == AssetValue(stocks, stock_r, m)
           bond_val == AssetValue(bonds, bond_r, m)
           real_val == AssetValue(real_estate, real_r, m)
           crypto_val == AssetValue(crypto, crypto_r, m)
           fd_val == AssetValue(fixed_deposit, fd_r, m)
           net_worth ==
               NetWorthOf(b, stock_val, bond_val, real_val, crypto_val, fd_val)
       IN  /\ bal' = b
           /\ rows' = Append(rows,
                  [Month |-> m, Balance |-> b, Stocks |-> stock_val,
                   Bonds |-> bond_val, RealEstate |-> real_val,
                   Crypto |-> crypto_val, FixedDeposit |-> fd_val,
                   NetWorth |-> net_worth])
    /\ m' = m + 1
    /\ UNCHANGED <<pc, widgets, returns, calc, session_state, ui, helper>>

\* lines 113-180: the loop is exhausted; data frame, summary, charts, prompt
LoopExit ==
    /\ pc = "loop"
    /\ ~InRange(m)
    /\ pc' = "openai"
    /\ UNCHANGED <<widgets, returns, calc, loop, session_state, ui, helper>>

\* a button returns True in at most one place of a run: the one the user
\* clicked to trigger it
ButtonValues == IF pressed = "none" THEN BOOLEAN ELSE {FALSE}

\* lines 182-193
OpenAI ==
    /\ pc = "openai"
    /\ \E b \in ButtonValues :
        IF ~b
        THEN pc' = "deepseek" /\ UNCHANGED <<pressed, failed, notices>>
        ELSE /\ pressed' = "openai"
             /\ \E o \in NetOutcomes :
                 LET e == Raises("openai", o)
                 IN  IF e = "none"
                     THEN /\ notices' = notices \cup {"openai_text"}
                          /\ pc' = "deepseek"
                          /\ UNCHANGED failed
                     ELSE /\ failed' = failed \cup {"openai"}
                          /\ IF ExceptException(e)
                             THEN /\ notices' = notices \cup {"openai_error"}
                                  /\ pc' = "deepseek"
                             ELSE pc' = "crashed" /\ UNCHANGED notices
    /\ UNCHANGED <<widgets, returns, calc, loop, session_state, requests,
                   helper>>

\* lines 195-211
DeepSeek ==
    /\ pc = "deepseek"
    /\ \E b \in ButtonValues :
        IF ~b
        THEN pc' = "conv_init" /\ UNCHANGED <<pressed, failed, notices>>
        ELSE /\ pressed' = "deepseek"
             /\ \E o \in NetOutcomes :
                 LET e == Raises("deepseek", o)
                 IN  IF e = "none"
                     THEN /\ notices' = notices \cup {"deepseek_text"}
                          /\ pc' = "conv_init"
                          /\ UNCHANGED failed
                     ELSE /\ failed' = failed \cup {"deepseek"}
                          /\ IF ExceptException(e)
                             THEN /\ notices' = notices \cup {"deepseek_error"}
                                  /\ pc' = "conv_init"
                             ELSE pc' = "crashed" /\ UNCHANGED notices
    /\ UNCHANGED <<widgets, returns, calc, loop, session_state, requests,
                   helper>>

Request(op) == [op |-> op, conv |-> session_state.conversation_id]

\* lines 219-233
ConvInit ==
    /\ pc = "conv_init"
    /\ IF HasConversation(session_state)
       THEN pc' = "send" /\ UNCHANGED <<session_state, requests, failed, notices>>
       ELSE /\ requests' = requests \cup {Request("create")}
            /\ \E o \in CreateOutcomes, id \in ConvIds :
                LET e == Raises("create", o)
                IN  IF e = "none"
                    THEN /\ session_state' =
                                [session_state EXCEPT
                                    !.conversation_id = JsonGetId(o, id)]
                         /\ pc' = "send"
                         /\ UNCHANGED <<failed, notices>>
                    ELSE /\ failed' = failed \cup {"create"}
                         /\ UNCHANGED session_state
                         /\ IF ExceptException(e)
                            THEN /\ notices' = notices \cup {"create_error"}
                                 /\ pc' = "stopped"
                            ELSE pc' = "crashed" /\ UNCHANGED notices
    /\ UNCHANGED <<widgets, returns, calc, loop, pressed, helper>>

\* lines 236-265
Send ==
    /\ pc = "send"
    /\ \E user_message \in Messages, b \in ButtonValues :
        /\ IF ~b
           THEN pc' = "done" /\ UNCHANGED <<pressed, requests, failed, notices>>
           ELSE /\ pressed' = "send"
                /\ IF Strip(user_message) = ""
                   THEN /\ notices' = notices \cup {"empty_warning"}
                        /\ pc' = "done"
                        /\ UNCHANGED <<requests, failed>>
                   ELSE IF ~HasConversation(session_state)
                   THEN /\ notices' = notices \cup {"no_conversation_error"}
                        /\ pc' = "done"
                        /\ UNCHANGED <<requests, failed>>
                   ELSE /\ requests' = requests \cup {Request("post")}
                        /\ \E o \in NetOutcomes :
                            LET e == Raises("send", o)
                            IN  IF e = "none"
                                THEN /\ notices' = notices \cup {"sent"}
                                     /\ pc' = "fetch"
                                     /\ UNCHANGED failed
                                ELSE /\ failed' = failed \cup {"send"}
                                     /\ IF ExceptException(e)
                                        THEN /\ notices' =
                                                 notices \cup {"send_error"}
                                             /\ pc' = "stopped"
                                        ELSE /\ pc' = "crashed"
                                             /\ UNCHANGED notices
    /\ UNCHANGED <<widgets, returns, calc, loop, session_state, helper>>

\* lines 267-286
Fetch ==
    /\ pc = "fetch"
    /\ requests' = requests \cup {Request("list")}
    /\ \E o \in NetOutcomes, replies \in Replies :
        LET e == Raises("fetch", o)
        IN  IF e = "none"
            THEN /\ notices' = notices \cup
                        {IF replies = "text" THEN "reply" ELSE "no_reply"}
                 /\ pc' = "done"
                 /\ UNCHANGED failed
            ELSE /\ failed' = failed \cup {"fetch"}
                 /\ IF ExceptException(e)
                    THEN /\ notices' = notices \cup {"fetch_error"}
                         /\ pc' = "done"
                    ELSE pc' = "crashed" /\ UNCHANGED notices
    /\ UNCHANGED <<widgets, returns, calc, loop, session_state, pressed,
                   helper>>

Next ==
    \/ Rerun
    \/ EndRun
    \/ RateSPY
    \/ RateAGG
    \/ Calculations
    \/ LoopIter
    \/ LoopExit
    \/ OpenAI
    \/ DeepSeek
    \/ ConvInit
    \/ Send
    \/ Fetch

Spec == Init /\ [][Next]_vars

\* ------------------------------------------------------------------------
\* The helper on its own: every response requests.get can come back with
\* ------------------------------------------------------------------------
InitHelper ==
    /\ pc = "helper"
    /\ Fresh
    /\ resp \in Responses
    /\ ret = None

\* lines 28-48: the helper is called
CallHelper ==
    /\ pc = "helper"
    /\ ret' = get_alpha_vantage_monthly_return(resp)
    /\ pc' = "helper_returned"
    /\ UNCHANGED <<widgets, returns, calc, loop, session_state, ui, resp>>

\* the next call meets another response
NextResponse ==
    /\ pc = "helper_returned"
    /\ resp' \in Responses
    /\ ret' = None
    /\ pc' = "helper"
    /\ UNCHANGED <<widgets, returns, calc, loop, session_state, ui>>

NextHelper == CallHelper \/ NextResponse

SpecHelper == InitHelper /\ [][NextHelper]_vars

\* ------------------------------------------------------------------------
\* Properties
\* ------------------------------------------------------------------------
\* positions of a run at which the for loop has been left
AfterLoop ==
    {"openai", "deepseek", "conv_init", "send", "fetch", "done", "stopped"}

\* C1: the loop produces exactly `months` snapshots, and the k-th snapshot has
\* Month = k: indices start at 1 and rise by 1 without gap or repeat.
C1_SnapshotMonths ==
    /\ Len(rows) <= months
    /\ \A k \in 1 .. Len(rows) : rows[k].Month = k
    /\ (pc \in AfterLoop => Len(rows) = months)

C1_Witness == pc = "openai" /\ months >= 2 /\ Len(rows) = months

\* C2: in every snapshot, Balance(k) = k * net_flow and NetWorth(k) is Balance
\* plus the five asset values; a negative net_flow gives negative balances and
\* the run goes on.
C2_BalanceNetWorth ==
    /\ \A k \in 1 .. Len(rows) :
        /\ rows[k].Balance = RMul(R(k), net_flow)
        /\ rows[k].Balance =
               (IF k = 1 THEN net_flow ELSE RAdd(rows[k - 1].Balance, net_flow))
        /\ LET sum5 ==
                   RAdd(rows[k].Stocks,
                        RAdd(rows[k].Bonds,
                             RAdd(rows[k].RealEstate,
                                  RAdd(rows[k].Crypto, rows[k].FixedDeposit))))
           IN  RSub(rows[k].NetWorth, rows[k].Balance) = sum5
    /\ (Len(rows) > 0 /\ net_flow[1] < 0 => pc # "crashed")

C2_Witness ==
    /\ pc = "done"
    /\ Len(rows) >= 2
    /\ net_flow[1] < 0
    /\ rows[2].Balance[1] < 0

\* C3: a rate of exactly zero takes the linear branch; in particular when the
\* helper computes a return of exactly 0 for SPY or AGG, that asset's value at
\* every month k is contribution * k.
C3_ZeroRateLinear ==
    \A k \in 1 .. Len(rows) :
        /\ (lookup.SPY.some /\ lookup.SPY.val = Zero
                => rows[k].Stocks = R(stocks * k))
        /\ (lookup.AGG.some /\ lookup.AGG.val = Zero
                => rows[k].Bonds = R(bonds * k))
        /\ (stock_r = Zero => rows[k].Stocks = R(stocks * k))
        /\ (bond_r = Zero => rows[k].Bonds = R(bonds * k))

\* C4: with net_flow >= 0 and every growth rate >= 0, NetWorth never falls
\* from one month to the next.
C4_Monotone ==
    (/\ RLeq(Zero, net_flow)
     /\ RLeq(Zero, stock_r) /\ RLeq(Zero, bond_r)
     /\ RLeq(Zero, real_r) /\ RLeq(Zero, crypto_r) /\ RLeq(Zero, fd_r))
        => \A k \in 2 .. Len(rows) :
               RLeq(rows[k - 1].NetWorth, rows[k].NetWorth)

C4_Witness ==
    /\ Len(rows) >= 2
    /\ RLeq(Zero, net_flow)
    /\ lookup.SPY.some /\ lookup.SPY.val[1] > 0
    /\ RLeq(Zero, bond_r)
    /\ rows[1].NetWorth # rows[2].NetWorth

\* the two most recent observations of a series, by date
LatestDate(ts) == CHOOSE d \in Keys(ts) : \A e \in Keys(ts) : e <= d
PreviousDate(ts) ==
    CHOOSE d \in Keys(ts) \ {LatestDate(ts)} :
        \A e \in Keys(ts) \ {LatestDate(ts)} : e <= d

\* the helper has nothing to compute a return from
Unavailable(rp) ==
    \/ rp.kind # "ok"
    \/ Cardinality(Keys(rp.ts)) < 2
    \/ rp.ts[LatestDate(rp.ts)].st = "bad"
    \/ rp.ts[PreviousDate(rp.ts)].st = "bad"
    \/ rp.ts[PreviousDate(rp.ts)].close = 0

\* C5: the helper never raises; it returns None when the request fails or
\* times out, the status is not 200, the body is malformed where the helper
\* reads it, the series has fewer than two observations, or the earlier of the
\* two most recent observations is zero; otherwise it returns
\* (latest - previous) / previous of the two most recent observations.
C5_HelperContract ==
    pc = "helper_returned" =>
        /\ ret.exc = "none"
        /\ (Unavailable(resp) => ret = None)
        /\ (~Unavailable(resp) =>
               LET latest == resp.ts[LatestDate(resp.ts)].close
                   previous == resp.ts[PreviousDate(resp.ts)].close
               IN  /\ ret.some
                   /\ ret.val[2] > 0
                   /\ ret.val[1] * previous = (latest - previous) * ret.val[2])

C5_Witness ==
    /\ pc = "helper_returned"
    /\ Cardinality(Keys(resp.ts)) >= 3
    /\ ret.some
    /\ ret.val[1] > 0
    /\ resp.ts[SetMin(Keys(resp.ts))].st = "bad"

\* C6: no message-post or message-list request goes out while the session
\* state holds no conversation; a send without one is turned down before any
\* network call.
C6_NoSendWithoutSession ==
    /\ \A q \in requests : q.op \in {"post", "list"} => q.conv # Absent
    /\ ("no_conversation_error" \in notices
            => \A q \in requests : q.op \notin {"post", "list"})

C6_Witness ==
    /\ pc = "done"
    /\ \E q \in requests : q.op = "post"
    /\ \E q \in requests : q.op = "list"

\* C7: once the session state holds a conversation id, no later run asks the
\* service for another conversation and the stored id is never replaced or
\* removed.
C7_StartOnce ==
    /\ [][session_state.conversation_id # Absent
              => session_state' = session_state]_vars
    /\ [](\A q \in requests : q.op = "create" => q.conv = Absent)

C7_Witness ==
    /\ pc = "send"
    /\ session_state.conversation_id \in ConvIds
    /\ requests = {}

\* the notice st.error shows for a failed collaborator call
NoticeOf(f) ==
    CASE f = "openai" -> "openai_error"
      [] f = "deepseek" -> "deepseek_error"
      [] f = "create" -> "create_error"
      [] f = "send" -> "send_error"
      [] f = "fetch" -> "fetch_error"
      [] OTHER -> "rate_error"

\* C9 as stated: whichever collaborator fails, an inline notice reports it, no
\* exception leaves the call, and the run goes on through every later step.
C9_Original ==
    failed # {} =>
        /\ \A f \in failed : NoticeOf(f) \in notices
        /\ pc \notin {"stopped", "crashed"}

\* C9 amended: no exception leaves a collaborator call and the projection is
\* always computed, with the default rate where a lookup failed.  A failed
\* lookup is silent; a failed advisory, create, send or fetch call shows its
\* notice.  Only a failed create or a failed send ends the run early
\* (st.stop()), and it leaves the session state as it was.
C9_Amended ==
    /\ pc # "crashed"
    /\ \A f \in failed \ {"rate_SPY", "rate_AGG"} : NoticeOf(f) \in notices
    /\ "rate_error" \notin notices
    /\ ("rate_SPY" \in failed => stock_r = DefaultStockR)
    /\ ("rate_AGG" \in failed => bond_r = DefaultBondR)
    /\ (pc \in AfterLoop => Len(rows) = months)
    /\ (pc = "stopped" <=> ("create" \in failed \/ "send" \in failed))
    /\ ("create" \in failed => session_state.conversation_id = Absent)

C9_Witness ==
    /\ pc = "stopped"
    /\ "send" \in failed
    /\ "rate_SPY" \in failed
    /\ Len(rows) = months
    /\ months >= 2

\* C10: whenever the session state holds a conversation id, it is an id the
\* service returned, never None; a failed start leaves the key out.
C10_ActiveHasId ==
    /\ (HasConversation(session_state)
            => session_state.conversation_id \in ConvIds)
    /\ ("create" \in failed => ~HasConversation(session_state))

====
